---- MODULE Spec2Model ----
(***************************************************************************)
(* sql-migrate-js: the migration resolution and execution engine           *)
(* (migrate.up.js, migrate.down.js, migrate.setup.js, migrate.utils.js).   *)
(*                                                                         *)
(* A JavaScript string is a sequence of tokens.  A token is one character  *)
(* ("0".."9", "_", ".") or one lowercase word ("apply", "users", ...).     *)
(* No token is a prefix of another one, so comparing two strings           *)
(* character by character is the same as comparing them token by token.    *)
(***************************************************************************)
EXTENDS Integers, Sequences, FiniteSets, TLC

(***************************************************************************)
(* Strings                                                                 *)
(***************************************************************************)

Digits == <<"0", "1", "2", "3", "4", "5", "6", "7", "8", "9">>

Words == <<"apply", "comments", "create", "likes", "posts", "revert", "sql", "table", "users">>

\* The position of x in the sequence s, 0 when x is no element of it.
PosIn(x, s) ==
  IF \E i \in 1..Len(s) : s[i] = x
  THEN CHOOSE i \in 1..Len(s) : s[i] = x
  ELSE 0

IsDigit(t) == PosIn(t, Digits) > 0

DigitValue(t) == PosIn(t, Digits) - 1

\* UTF-16 code unit order, which the relational operators of JavaScript use
\* on strings: "." (46) < "0".."9" (48..57) < "_" (95) < "a".."z" (97..122).
CodeUnitRank(t) ==
  IF t = "." THEN 1
  ELSE IF IsDigit(t) THEN 1 + PosIn(t, Digits)
  ELSE IF t = "_" THEN 12
  ELSE 12 + PosIn(t, Words)

\* Collation order of String.prototype.localeCompare (ICU root collation):
\* punctuation "_" < "." sorts before the digits, the digits before letters.
LocaleRank(t) ==
  IF t = "_" THEN 1
  ELSE IF t = "." THEN 2
  ELSE IF IsDigit(t) THEN 2 + PosIn(t, Digits)
  ELSE 12 + PosIn(t, Words)

\* The first position where a and b differ, 0 when one is a prefix of the other.
FirstDiff(a, b) ==
  LET m == IF Len(a) < Len(b) THEN Len(a) ELSE Len(b)
      D == {i \in 1..m : a[i] # b[i]}
  IN IF D = {} THEN 0 ELSE CHOOSE i \in D : \A j \in D : i <= j

\* a < b for JavaScript strings.
StrLess(a, b) ==
  LET d == FirstDiff(a, b)
  IN IF d = 0 THEN Len(a) < Len(b)
     ELSE CodeUnitRank(a[d]) < CodeUnitRank(b[d])

\* a <= b for JavaScript strings.
StrLeq(a, b) == a = b \/ StrLess(a, b)

\* a.localeCompare(b): negative, zero or positive.
localeCompare(a, b) ==
  LET d == FirstDiff(a, b)
  IN IF d = 0
     THEN (IF Len(a) < Len(b) THEN -1 ELSE IF Len(a) > Len(b) THEN 1 ELSE 0)
     ELSE IF LocaleRank(a[d]) < LocaleRank(b[d]) THEN -1 ELSE 1

\* s.endsWith(suffix)
endsWith(s, suffix) ==
  /\ Len(suffix) <= Len(s)
  /\ SubSeq(s, Len(s) - Len(suffix) + 1, Len(s)) = suffix

\* s.indexOf(pat), 1-based; 0 when pat does not occur in s.
indexOf(s, pat) ==
  LET P == {i \in 1..(Len(s) - Len(pat) + 1) : SubSeq(s, i, i + Len(pat) - 1) = pat}
  IN IF P = {} THEN 0 ELSE CHOOSE i \in P : \A j \in P : i <= j

\* s.replace(pat, rep) with a string pattern: only the first occurrence.
replace(s, pat, rep) ==
  LET i == indexOf(s, pat)
  IN IF i = 0 THEN s
     ELSE SubSeq(s, 1, i - 1) \o rep \o SubSeq(s, i + Len(pat), Len(s))

\* s.split("_")[0]: the part before the first "_", all of s when it has none.
splitFirst(s) ==
  LET i == indexOf(s, <<"_">>)
  IN IF i = 0 THEN s ELSE SubSeq(s, 1, i - 1)

(***************************************************************************)
(* Number(string)                                                          *)
(*                                                                         *)
(* A JavaScript number is an IEEE 754 double: 53 bits of mantissa.  A      *)
(* decimal string of up to 17 digits is kept as the pair hi * 10^8 + lo    *)
(* and rounded to the nearest double, ties to the even mantissa.  10^8 is  *)
(* a multiple of 32, so the value modulo 2, 4, 8, 16 or 32 is lo's.        *)
(***************************************************************************)

NaN == [nan |-> TRUE, hi |-> 0, lo |-> 0]

\* The value of the decimal digits s[i], ..., s[j].
RECURSIVE DigitsValue(_, _, _)
DigitsValue(s, i, j) ==
  IF i > j THEN 0 ELSE DigitsValue(s, i, j - 1) * 10 + DigitValue(s[j])

\* The exact value of a string of decimal digits: its last eight digits are
\* lo, the digits before them hi.
DecimalValue(s) ==
  LET k == IF Len(s) > 8 THEN Len(s) - 8 ELSE 0
  IN [nan |-> FALSE, hi |-> DigitsValue(s, 1, k), lo |-> DigitsValue(s, k + 1, Len(s))]

NumLess(a, b) == a.hi < b.hi \/ (a.hi = b.hi /\ a.lo < b.lo)

\* The distance between neighbouring doubles around v: 1 below 2^53, 2 below
\* 2^54, 4 below 2^55, 8 below 2^56, 16 up to 10^17.
Ulp(v) ==
  IF NumLess(v, [hi |-> 90071992, lo |-> 54740992]) THEN 1
  ELSE IF NumLess(v, [hi |-> 180143985, lo |-> 9481984]) THEN 2
  ELSE IF NumLess(v, [hi |-> 360287970, lo |-> 18963968]) THEN 4
  ELSE IF NumLess(v, [hi |-> 720575940, lo |-> 37927936]) THEN 8
  ELSE 16

\* v rounded to the nearest double, ties to even.
RoundToDouble(v) ==
  LET u == Ulp(v)
      r == v.lo % u
      down == v.lo - r
      up == 2 * r > u \/ (2 * r = u /\ down % (2 * u) # 0)
      lo2 == IF up THEN down + u ELSE down
  IN [nan |-> FALSE, hi |-> v.hi + lo2 \div 100000000, lo |-> lo2 % 100000000]

\* Number(s) for a string s: 0 for the empty string, the nearest double for a
\* string of decimal digits, NaN for a string holding any other token.
Number(s) ==
  IF \E i \in 1..Len(s) : ~IsDigit(s[i]) THEN NaN
  ELSE RoundToDouble(DecimalValue(s))

\* x >= y for JavaScript numbers: false when either one is NaN.
NumGeq(x, y) == ~x.nan /\ ~y.nan /\ ~NumLess(x, y)

(***************************************************************************)
(* Arrays                                                                  *)
(***************************************************************************)

\* The array of the n values f[1], ..., f[n].
Array(f, n) == SubSeq(f, 1, n)

\* Array.prototype.sort, a stable sort.  c[i][j] is the comparator's value
\* on the elements s[i] and s[j].
sort(s, c) ==
  LET n == Len(s)
      cmp == Array([i \in 1..n |-> Array(c[i], n)], n)
      before(j, i) == cmp[j][i] < 0 \/ (cmp[j][i] = 0 /\ j < i)
      rank == Array([i \in 1..n |-> Cardinality({j \in 1..n : before(j, i)}) + 1], n)
  IN Array([k \in 1..n |-> s[CHOOSE i \in 1..n : rank[i] = k]], n)

\* The set of the elements of the array s.
Elems(s) == {s[i] : i \in 1..Len(s)}

(***************************************************************************)
(* migrate.up.js and migrate.down.js: the plan resolver                    *)
(***************************************************************************)

APPLY_MIGRATION_FILE_SUFFIX == <<".", "apply", ".", "sql">>

REVERT_MIGRATION_FILE_SUFFIX == <<".", "revert", ".", "sql">>

\* The boundary argument left out (undefined).  It is the empty string, which
\* `if (migrationTimestamp)` treats alike: both are falsy.
NoTimestamp == <<>>

\* filterBeforeOrAtTimestamp with < written for <=.
filterBeforeOrAtTimestamp_Strict(migration, migrationTimestamp) ==
  StrLess(splitFirst(migration), migrationTimestamp)

filterBeforeOrAtTimestamp(migration, migrationTimestamp) ==
  StrLeq(splitFirst(migration), migrationTimestamp)

\* composePredicates(...predicates)(x), given the predicates' values at x.
composePredicates(values) == \A i \in 1..Len(values) : values[i]

\* determineMigrationsToApply without its appliedMigrationsSet predicate.
determineMigrationsToApply_KeepsApplied(allMigrations, appliedMigrations, migrationTimestamp) ==
  LET keep(migration) ==
        /\ endsWith(migration, APPLY_MIGRATION_FILE_SUFFIX)
        /\ migrationTimestamp # NoTimestamp =>
             StrLeq(splitFirst(migration), migrationTimestamp)
  IN SelectSeq(allMigrations, keep)

determineMigrationsToApply(allMigrations, appliedMigrations, migrationTimestamp) ==
  LET appliedMigrationsSet == Elems(appliedMigrations)
      predicates(migration) ==
        <<endsWith(migration, APPLY_MIGRATION_FILE_SUFFIX),
          migration \notin appliedMigrationsSet>>
        \o (IF migrationTimestamp # NoTimestamp
            THEN <<filterBeforeOrAtTimestamp(migration, migrationTimestamp)>>
            ELSE <<>>)
      keep(migration) == composePredicates(predicates(migration))
  IN SelectSeq(allMigrations, keep)

\* applyMigrations walking the plan as it was given, without its sort.
applyOrder_Unsorted(migrationsToApply) == migrationsToApply

\* The order in which applyMigrations walks the plan.
applyOrder(migrationsToApply) ==
  LET n == Len(migrationsToApply)
  IN sort(migrationsToApply,
          [i \in 1..n |-> [j \in 1..n |->
             localeCompare(migrationsToApply[i], migrationsToApply[j])]])

filterAfterOrAtTimestamp(migration, migrationTimestamp) ==
  LET migrationTime == splitFirst(migration)
  IN NumGeq(Number(migrationTime), Number(migrationTimestamp))

appliedToRevertMigration(filename) ==
  replace(filename, <<".", "apply", ".">>, <<".", "revert", ".">>)

\* revertMigration deleting by the revert filename it was given.
applyFilename_Unchanged(filename) == filename

\* The apply filename revertMigration derives for its DELETE.
applyFilename(filename) ==
  replace(filename, REVERT_MIGRATION_FILE_SUFFIX, APPLY_MIGRATION_FILE_SUFFIX)

\* The value a function returns, or the error it throws.
Return(v) == [threw |-> "none", value |-> v]

Throw(e) == [threw |-> e, value |-> <<>>]

\* determineMigrationsToRevert with its suffix check made a filter.
determineMigrationsToRevert_Drops(revertMigrations, migrationTimestamp) ==
  LET wellFormed(migration) == endsWith(migration, REVERT_MIGRATION_FILE_SUFFIX)
      keep(migration) == filterAfterOrAtTimestamp(migration, migrationTimestamp)
      migrations == SelectSeq(revertMigrations, wellFormed)
  IN IF migrationTimestamp # NoTimestamp
     THEN Return(SelectSeq(migrations, keep))
     ELSE Return(migrations)

determineMigrationsToRevert(revertMigrations, migrationTimestamp) ==
  LET keep(migration) == filterAfterOrAtTimestamp(migration, migrationTimestamp)
  IN IF \E i \in 1..Len(revertMigrations) :
          ~endsWith(revertMigrations[i], REVERT_MIGRATION_FILE_SUFFIX)
     THEN Throw("InvalidMigrationFile")
     ELSE IF migrationTimestamp # NoTimestamp
     THEN Return(SelectSeq(revertMigrations, keep))
     ELSE Return(revertMigrations)

sortMigrationsInDescendingOrder(migrations) ==
  LET n == Len(migrations)
      timestamp(i) == splitFirst(migrations[i])
  IN sort(migrations,
          [a \in 1..n |-> [b \in 1..n |-> localeCompare(timestamp(b), timestamp(a))]])

\* handleDown planning the revert of the last applied unit only.
revertPlan_LastOnly(appliedMigrations, migrationTimestamp) ==
  LET sortedAppliedMigrations == sortMigrationsInDescendingOrder(appliedMigrations)
      allRevertMigrations ==
        Array([i \in 1..Len(sortedAppliedMigrations) |->
                 appliedToRevertMigration(sortedAppliedMigrations[i])],
              Len(sortedAppliedMigrations))
      migrationsToRevert == determineMigrationsToRevert(allRevertMigrations, migrationTimestamp)
  IN IF migrationsToRevert.threw # "none" \/ Len(migrationsToRevert.value) <= 1
     THEN migrationsToRevert
     ELSE Return(SubSeq(migrationsToRevert.value, 1, 1))

\* The revert plan handleDown computes from the applied list.
revertPlan(appliedMigrations, migrationTimestamp) ==
  LET sortedAppliedMigrations == sortMigrationsInDescendingOrder(appliedMigrations)
      allRevertMigrations ==
        Array([i \in 1..Len(sortedAppliedMigrations) |->
                 appliedToRevertMigration(sortedAppliedMigrations[i])],
              Len(sortedAppliedMigrations))
  IN determineMigrationsToRevert(allRevertMigrations, migrationTimestamp)

(***************************************************************************)
(* The migrations directory and the database                               *)
(***************************************************************************)

\* The number of units (apply/revert file pairs) in the migrations directory.
NumUnits == 2

Units == 1..NumUnits

\* The keys of the repository's test migrations: 20230922034400001, ...002, ...
KeyPrefix ==
  <<"2", "0", "2", "3", "0", "9", "2", "2", "0", "3", "4", "4", "0", "0", "0", "0">>

UnitKey(u) == KeyPrefix \o <<Digits[u + 1]>>

UnitSlug(u) ==
  <<"create", "_", <<"users", "posts", "comments", "likes">>[u], "_", "table">>

ApplyFile(u) == UnitKey(u) \o <<"_">> \o UnitSlug(u) \o APPLY_MIGRATION_FILE_SUFFIX

RevertFile(u) == UnitKey(u) \o <<"_">> \o UnitSlug(u) \o REVERT_MIGRATION_FILE_SUFFIX

ApplyFiles == {ApplyFile(u) : u \in Units}

RevertFiles == {RevertFile(u) : u \in Units}

\* The boundary timestamps a command is given.
Boundaries == {NoTimestamp} \cup {UnitKey(u) : u \in Units}

\* What the SQL body of a file does: the apply body of unit u creates u's
\* schema objects, the revert body removes them.
BodyOf(filename) ==
  IF filename \in ApplyFiles
  THEN [kind |-> "apply", unit |-> CHOOSE u \in Units : ApplyFile(u) = filename]
  ELSE [kind |-> "revert", unit |-> CHOOSE u \in Units : RevertFile(u) = filename]

\* The columns of CREATE TABLE migrations.
MigrationsTableColumns == {"id", "filename", "applied_at"}

\* A database state: how often each unit's schema change is in place, how
\* many rows of the migrations table hold each filename, whether the
\* migrations table exists, and its columns.
EmptyDatabase ==
  [schema |-> [u \in Units |-> 0],
   rows |-> [f \in ApplyFiles |-> 0],
   table |-> FALSE,
   columns |-> {}]

\* The statements the engine sends besides BEGIN, COMMIT and ROLLBACK.
BodyStmt(filename) == [q |-> "BODY", f |-> filename]

InsertStmt(filename) == [q |-> "INSERT", f |-> filename]

DeleteStmt(filename) == [q |-> "DELETE", f |-> filename]

CreateTableStmt == [q |-> "CREATE TABLE", f |-> <<>>]

Control(q) == [q |-> q, f |-> <<>>]

\* CanSucceed for a migrations table with a UNIQUE constraint on filename.
CanSucceed_UniqueFilename(d, stmt) ==
  CASE stmt.q = "BODY" -> TRUE
    [] stmt.q = "INSERT" -> d.table /\ d.rows[stmt.f] = 0
    [] stmt.q = "DELETE" -> d.table
    [] stmt.q = "CREATE TABLE" -> ~d.table
    [] OTHER -> TRUE

\* Whether the database can execute stmt in state d.  The migrations table
\* must exist for INSERT and DELETE and must not exist for CREATE TABLE; a
\* body can succeed (whether it does is the SQL's and the server's affair).
CanSucceed(d, stmt) ==
  CASE stmt.q = "BODY" -> TRUE
    [] stmt.q = "INSERT" -> d.table
    [] stmt.q = "DELETE" -> d.table
    [] stmt.q = "CREATE TABLE" -> ~d.table
    [] OTHER -> TRUE

\* The effect of executing stmt in state d.  schema[u] says how often unit
\* u's apply body was committed since its last revert: 0 for never, 1 for
\* once, 2 for more than once.
Effect(d, stmt) ==
  CASE stmt.q = "BODY" ->
         LET b == BodyOf(stmt.f)
             again(n) == IF n = 0 THEN 1 ELSE 2
         IN [d EXCEPT !.schema[b.unit] = IF b.kind = "apply" THEN again(@) ELSE 0]
    [] stmt.q = "INSERT" -> [d EXCEPT !.rows[stmt.f] = @ + 1]
    [] stmt.q = "DELETE" ->
         [d EXCEPT !.rows = [f \in DOMAIN @ |-> IF f = stmt.f THEN 0 ELSE @[f]]]
    [] stmt.q = "CREATE TABLE" ->
         [d EXCEPT !.table = TRUE, !.columns = MigrationsTableColumns]
    [] OTHER -> d

\* The strings of the set S in ascending code unit order.
RECURSIVE Ascending(_)
Ascending(S) ==
  IF S = {} THEN <<>>
  ELSE LET least == CHOOSE f \in S : \A g \in S : ~StrLess(g, f)
       IN <<least>> \o Ascending(S \ {least})

\* s1 \o s2 \o ... for a sequence of sequences.
RECURSIVE Flatten(_)
Flatten(ss) == IF ss = <<>> THEN <<>> ELSE Head(ss) \o Flatten(Tail(ss))

\* SELECT filename FROM migrations ORDER BY filename
selectFilenames(d) ==
  LET present == Ascending({f \in DOMAIN d.rows : d.rows[f] > 0})
  IN Flatten([i \in 1..Len(present) |-> [k \in 1..d.rows[present[i]] |-> present[i]]])

(***************************************************************************)
(* State                                                                   *)
(***************************************************************************)

VARIABLES
  dir,       \* the files of the migrations directory
  database,  \* the committed database state
  conn,      \* the client's connection: its transaction state and its view
  pc,        \* where the running command stands ("idle": none is running)
  sub,       \* where the running executeSQL call stands ("none": none)
  op,        \* the running command, or the last one and how it ended
  plan,      \* the filenames the running (or last) command walks
  idx,       \* the position in plan of the unit being applied or reverted
  err,       \* the error being thrown up to the command's caller
  sent,      \* the queries the running (or last) command sent, in order
  arg,       \* the arguments of a call of a plan resolver function
  ret,       \* what that call returned
  main,      \* the migrate.js process: its command line and its client
  other      \* a second process on the same database, while it is not the
             \* one taking steps: its conn, pc, sub, op, plan, idx, err, sent

vars == <<dir, database, conn, pc, sub, op, plan, idx, err, sent, arg, ret, main, other>>

Error(code, stmt) == [code |-> code, stmt |-> stmt]

NoError == Error("none", Control("none"))

NoArg == [allMigrations |-> <<>>, appliedMigrations |-> <<>>, migrationTimestamp |-> <<>>]

NoRet == [fn |-> "none", result |-> Return(<<>>)]

AllFiles == ApplyFiles \cup RevertFiles

\* No migrate.js process is running.
NoMain == [command |-> "none", option |-> NoTimestamp, client |-> "none"]

\* There is no second process.
NoProcess == [pc |-> "none"]

\* fs.promises.readdir returns the files in no specified order: ascending
\* and descending filename order stand for the orders it can return.
ScanOrders(files) ==
  LET asc == Ascending(files)
      n == Len(asc)
  IN {asc, [i \in 1..n |-> asc[n + 1 - i]]}

\* The migrations directory: every unit's files, the same with one revert
\* file missing, or no file at all.
Directories == {AllFiles, AllFiles \ {RevertFile(1)}, {}}

Init ==
  /\ dir \in Directories
  /\ database = EmptyDatabase
  /\ conn = [txn |-> "idle", db |-> EmptyDatabase]
  /\ pc = "idle"
  /\ sub = "none"
  /\ op = [name |-> "none", timestamp |-> NoTimestamp, status |-> "none", error |-> NoError]
  /\ plan = <<>>
  /\ idx = 0
  /\ err = NoError
  /\ sent = <<>>
  /\ arg = NoArg
  /\ ret = NoRet
  /\ main = NoMain
  /\ other = NoProcess

(***************************************************************************)
(* client.query on the connection                                          *)
(*                                                                         *)
(* PostgreSQL: BEGIN inside a transaction block and COMMIT or ROLLBACK     *)
(* outside of one only raise a warning; COMMIT ends the whole block.  A    *)
(* failed statement aborts the block it is in; outside of a block each     *)
(* statement commits by itself.                                            *)
(***************************************************************************)

\* The database state the connection's statements see.
View == IF conn.txn = "idle" THEN database ELSE conn.db

\* client.query("BEGIN")
Begin ==
  /\ conn' = IF conn.txn = "idle" THEN [txn |-> "open", db |-> database] ELSE conn
  /\ UNCHANGED database

\* client.query("COMMIT")
Commit ==
  /\ database' = IF conn.txn = "open" THEN conn.db ELSE database
  /\ conn' = [txn |-> "idle", db |-> database']

\* client.query("ROLLBACK")
Rollback ==
  /\ conn' = [txn |-> "idle", db |-> database]
  /\ UNCHANGED database

\* client.query(sql, params) succeeds.
Succeed(stmt) ==
  /\ database' = IF conn.txn = "idle" THEN Effect(database, stmt) ELSE database
  /\ conn' = [txn |-> conn.txn, db |-> Effect(View, stmt)]

\* client.query(sql, params) fails.
Fail ==
  /\ conn' = IF conn.txn = "idle" THEN conn ELSE [conn EXCEPT !.txn = "aborted"]
  /\ UNCHANGED database

\* The error a failed statement raises.
QueryError(stmt) ==
  IF stmt.q \in {"INSERT", "DELETE", "SELECT"} /\ ~View.table
  THEN Error("relation \"migrations\" does not exist", stmt)
  ELSE Error("query failed", stmt)

(***************************************************************************)
(* Commands                                                                *)
(***************************************************************************)

Start(name, timestamp) ==
  [name |-> name, timestamp |-> timestamp, status |-> "running", error |-> NoError]

\* The command returns to its caller.
Returns(o) ==
  /\ op' = [o EXCEPT !.status = "returned"]
  /\ pc' = "idle"
  /\ sub' = "none"
  /\ err' = NoError

\* The command rejects with the error e.
Rejects(o, e) ==
  /\ op' = [o EXCEPT !.status = "rejected", !.error = e]
  /\ pc' = "idle"
  /\ sub' = "none"
  /\ err' = NoError

\* handleSetup without its doesMigrationsTableExist check.
HandleSetup_AlwaysCreates ==
  /\ pc = "idle"
  /\ sent' = <<Control("SELECT EXISTS")>>
  /\ plan' = <<>>
  /\ idx' = 0
  /\ op' = Start("setup", NoTimestamp)
  /\ pc' = "setup_create"
  /\ sub' = "begin"
  /\ err' = NoError
  /\ UNCHANGED <<dir, database, conn, arg, ret, main, other>>

\* migrate.setup.js: handleSetup up to the call of createMigrationsTable.
HandleSetup ==
  /\ pc = "idle"
  /\ sent' = <<Control("SELECT EXISTS")>>
  /\ plan' = <<>>
  /\ idx' = 0
  /\ IF View.table
     THEN Returns(Start("setup", NoTimestamp))
     ELSE /\ op' = Start("setup", NoTimestamp)
          /\ pc' = "setup_create"
          /\ sub' = "begin"
          /\ err' = NoError
  /\ UNCHANGED <<dir, database, conn, arg, ret, main, other>>

\* migrate.up.js: handleUp up to the call of applyMigrations, and the sort
\* applyMigrations starts with.
HandleUp(migrationTimestamp) ==
  /\ pc = "idle"
  /\ sent' = <<Control("SELECT")>>
  /\ \E allMigrations \in ScanOrders(dir) :
       LET appliedMigrations == selectFilenames(View)
           migrationsToApply ==
             determineMigrationsToApply(allMigrations, appliedMigrations, migrationTimestamp)
           o == Start("up", migrationTimestamp)
       IN IF ~View.table
          THEN /\ Rejects(o, QueryError(Control("SELECT")))
               /\ plan' = <<>>
               /\ idx' = 0
          ELSE IF Len(migrationsToApply) = 0
          THEN /\ Returns(o)
               /\ plan' = <<>>
               /\ idx' = 0
          ELSE /\ op' = o
               /\ plan' = applyOrder(migrationsToApply)
               /\ idx' = 1
               /\ pc' = "am_begin"
               /\ sub' = "none"
               /\ err' = NoError
  /\ UNCHANGED <<dir, database, conn, arg, ret, main, other>>

\* migrate.utils.js: executeInTransaction's BEGIN, for applyMigration.
ApplyMigrationBegin ==
  /\ pc = "am_begin"
  /\ Begin
  /\ sent' = Append(sent, Control("BEGIN"))
  /\ pc' = "am_read"
  /\ UNCHANGED <<dir, sub, op, plan, idx, err, arg, ret, main, other>>

\* applyMigration going on with an empty body when its file is missing.
ApplyMigrationRead_IgnoresMissing ==
  /\ pc = "am_read"
  /\ pc' = "am_body"
  /\ sub' = "begin"
  /\ err' = NoError
  /\ UNCHANGED <<dir, database, conn, op, plan, idx, sent, arg, ret, main, other>>

\* migrate.up.js: applyMigration's readMigrationContent.
ApplyMigrationRead ==
  /\ pc = "am_read"
  /\ IF plan[idx] \in dir
     THEN /\ pc' = "am_body"
          /\ sub' = "begin"
          /\ err' = NoError
     ELSE /\ pc' = "am_rollback"
          /\ sub' = "none"
          /\ err' = Error("ENOENT", Control("readFile"))
  /\ UNCHANGED <<dir, database, conn, op, plan, idx, sent, arg, ret, main, other>>

\* The statement the running executeSQL call was given.
Statement ==
  CASE pc = "am_body" -> BodyStmt(plan[idx])
    [] pc = "am_insert" -> InsertStmt(plan[idx])
    [] pc = "rm_body" -> BodyStmt(plan[idx])
    [] pc = "rm_delete" -> DeleteStmt(applyFilename(plan[idx]))
    [] OTHER -> CreateTableStmt

\* migrate.utils.js: executeSQL's BEGIN;
ExecuteSQLBegin ==
  /\ sub = "begin"
  /\ Begin
  /\ sent' = Append(sent, Control("BEGIN;"))
  /\ sub' = "query"
  /\ UNCHANGED <<dir, pc, op, plan, idx, err, arg, ret, main, other>>

\* migrate.utils.js: executeSQL's client.query(sql, params).
ExecuteSQLQuery ==
  /\ sub = "query"
  /\ sent' = Append(sent, Statement)
  /\ \E ok \in BOOLEAN :
       /\ ok => conn.txn # "aborted" /\ CanSucceed(View, Statement)
       /\ IF ok
          THEN /\ Succeed(Statement)
               /\ sub' = "commit"
               /\ err' = NoError
          ELSE /\ Fail
               /\ sub' = "rollback"
               /\ err' = QueryError(Statement)
  /\ UNCHANGED <<dir, pc, op, plan, idx, arg, ret, main, other>>

\* The command returns, or goes on to the next unit of its plan.
NextUnit(first) ==
  IF idx < Len(plan)
  THEN /\ idx' = idx + 1
       /\ pc' = first
       /\ sub' = "none"
       /\ err' = NoError
       /\ UNCHANGED op
  ELSE /\ Returns(op)
       /\ UNCHANGED idx

\* migrate.utils.js: executeSQL's COMMIT; and what its caller does next.
ExecuteSQLCommit ==
  /\ sub = "commit"
  /\ Commit
  /\ sent' = Append(sent, Control("COMMIT;"))
  /\ CASE pc = "am_body" ->
            /\ pc' = "am_insert"
            /\ sub' = "begin"
            /\ UNCHANGED <<op, idx, err>>
       [] pc = "am_insert" ->
            /\ pc' = "am_commit"
            /\ sub' = "none"
            /\ UNCHANGED <<op, idx, err>>
       [] pc = "rm_body" ->
            /\ pc' = "rm_delete"
            /\ sub' = "begin"
            /\ UNCHANGED <<op, idx, err>>
       [] pc = "rm_delete" -> NextUnit("rm_read")
       [] OTHER -> Returns(op) /\ UNCHANGED idx
  /\ UNCHANGED <<dir, plan, arg, ret, main, other>>

\* migrate.utils.js: executeSQL's catch: ROLLBACK; and the error thrown on,
\* to executeInTransaction's catch (applyMigration) or out of the command.
ExecuteSQLRollback ==
  /\ sub = "rollback"
  /\ Rollback
  /\ sent' = Append(sent, Control("ROLLBACK;"))
  /\ IF pc \in {"am_body", "am_insert"}
     THEN /\ pc' = "am_rollback"
          /\ sub' = "none"
          /\ UNCHANGED <<op, err>>
     ELSE Rejects(op, err)
  /\ UNCHANGED <<dir, plan, idx, arg, ret, main, other>>

\* migrate.utils.js: executeInTransaction's COMMIT, and applyMigrations' loop.
ApplyMigrationCommit ==
  /\ pc = "am_commit"
  /\ Commit
  /\ sent' = Append(sent, Control("COMMIT"))
  /\ NextUnit("am_begin")
  /\ UNCHANGED <<dir, plan, arg, ret, main, other>>

\* executeInTransaction's catch without its `throw error`: applyMigrations
\* goes on with the next unit.
ApplyMigrationRollback_Continues ==
  /\ pc = "am_rollback"
  /\ Rollback
  /\ sent' = Append(sent, Control("ROLLBACK"))
  /\ NextUnit("am_begin")
  /\ UNCHANGED <<dir, plan, arg, ret, main, other>>

\* migrate.utils.js: executeInTransaction's catch: ROLLBACK, and the error
\* thrown on through applyMigrations and out of handleUp.
ApplyMigrationRollback ==
  /\ pc = "am_rollback"
  /\ Rollback
  /\ sent' = Append(sent, Control("ROLLBACK"))
  /\ Rejects(op, err)
  /\ UNCHANGED <<dir, plan, idx, arg, ret, main, other>>

\* handleDown taking a failed read of the migrations table for an empty one.
HandleDown_MissingTableIsEmpty(migrationTimestamp) ==
  /\ pc = "idle"
  /\ sent' = <<Control("SELECT")>>
  /\ LET migrationsToRevert ==
           IF View.table THEN revertPlan(selectFilenames(View), migrationTimestamp)
           ELSE Return(<<>>)
         o == Start("down", migrationTimestamp)
     IN IF migrationsToRevert.threw # "none"
        THEN /\ Rejects(o, Error(migrationsToRevert.threw, Control("none")))
             /\ plan' = <<>>
             /\ idx' = 0
        ELSE IF Len(migrationsToRevert.value) = 0
        THEN /\ Returns(o)
             /\ plan' = <<>>
             /\ idx' = 0
        ELSE /\ op' = o
             /\ plan' = migrationsToRevert.value
             /\ idx' = 1
             /\ pc' = "rm_read"
             /\ sub' = "none"
             /\ err' = NoError
  /\ UNCHANGED <<dir, database, conn, arg, ret, main, other>>

\* migrate.down.js: handleDown up to its loop over the plan.
HandleDown(migrationTimestamp) ==
  /\ pc = "idle"
  /\ sent' = <<Control("SELECT")>>
  /\ LET migrationsToRevert == revertPlan(selectFilenames(View), migrationTimestamp)
         o == Start("down", migrationTimestamp)
     IN IF ~View.table
        THEN /\ Rejects(o, QueryError(Control("SELECT")))
             /\ plan' = <<>>
             /\ idx' = 0
        ELSE IF migrationsToRevert.threw # "none"
        THEN /\ Rejects(o, Error(migrationsToRevert.threw, Control("none")))
             /\ plan' = <<>>
             /\ idx' = 0
        ELSE IF Len(migrationsToRevert.value) = 0
        THEN /\ Returns(o)
             /\ plan' = <<>>
             /\ idx' = 0
        ELSE /\ op' = o
             /\ plan' = migrationsToRevert.value
             /\ idx' = 1
             /\ pc' = "rm_read"
             /\ sub' = "none"
             /\ err' = NoError
  /\ UNCHANGED <<dir, database, conn, arg, ret, main, other>>

\* revertMigration returning without effect when its file is missing.
RevertMigrationRead_SkipsMissing ==
  /\ pc = "rm_read"
  /\ IF ~endsWith(plan[idx], REVERT_MIGRATION_FILE_SUFFIX)
     THEN Rejects(op, Error("InvalidMigrationFile", Control("none"))) /\ UNCHANGED idx
     ELSE IF plan[idx] \notin dir
     THEN NextUnit("rm_read")
     ELSE /\ pc' = "rm_body"
          /\ sub' = "begin"
          /\ UNCHANGED <<op, err, idx>>
  /\ UNCHANGED <<dir, database, conn, plan, sent, arg, ret, main, other>>

\* revertMigration without its check of the filename's suffix.
RevertMigrationRead_Unchecked ==
  /\ pc = "rm_read"
  /\ IF plan[idx] \notin dir
     THEN Rejects(op, Error("ENOENT", Control("readFile")))
     ELSE /\ pc' = "rm_body"
          /\ sub' = "begin"
          /\ UNCHANGED <<op, err>>
  /\ UNCHANGED <<dir, database, conn, plan, idx, sent, arg, ret, main, other>>

\* migrate.down.js: revertMigration's suffix check and readMigrationContent.
RevertMigrationRead ==
  /\ pc = "rm_read"
  /\ IF ~endsWith(plan[idx], REVERT_MIGRATION_FILE_SUFFIX)
     THEN Rejects(op, Error("InvalidMigrationFile", Control("none")))
     ELSE IF plan[idx] \notin dir
     THEN Rejects(op, Error("ENOENT", Control("readFile")))
     ELSE /\ pc' = "rm_body"
          /\ sub' = "begin"
          /\ UNCHANGED <<op, err>>
  /\ UNCHANGED <<dir, database, conn, plan, idx, sent, arg, ret, main, other>>

Next ==
  \/ HandleSetup
  \/ \E migrationTimestamp \in Boundaries : HandleUp(migrationTimestamp)
  \/ \E migrationTimestamp \in Boundaries : HandleDown(migrationTimestamp)
  \/ ApplyMigrationBegin
  \/ ApplyMigrationRead
  \/ ExecuteSQLBegin
  \/ ExecuteSQLQuery
  \/ ExecuteSQLCommit
  \/ ExecuteSQLRollback
  \/ ApplyMigrationCommit
  \/ ApplyMigrationRollback
  \/ RevertMigrationRead

Spec == Init /\ [][Next]_vars

(***************************************************************************)
(* The plan resolver functions on their own                                *)
(***************************************************************************)

\* The longest directory listing and the longest applied list given to the
\* resolver functions.
MaxCatalog == 4

MaxAppliedList == 2

\* A unit whose slug is "table.revert.sql":
\* 20230922034400005_table.revert.sql.apply.sql
OddApplyFile ==
  UnitKey(5) \o <<"_", "table">> \o REVERT_MIGRATION_FILE_SUFFIX \o APPLY_MIGRATION_FILE_SUFFIX

\* The apply files of the units 001 to 004 of the tests, and the odd one.
ResolverApplyFiles == {ApplyFile(u) : u \in {1, 2, 3, 4}} \cup {OddApplyFile}

\* The files a directory listing given to the resolver is made of.
ResolverFiles == ResolverApplyFiles \cup {RevertFile(2)}

Reverse(s) == [i \in 1..Len(s) |-> s[Len(s) + 1 - i]]

Catalogs ==
  UNION {{Ascending(S), Reverse(Ascending(S))} :
           S \in {T \in SUBSET ResolverFiles : Cardinality(T) <= MaxCatalog}}

\* A unit generated in the same second as unit 001, with another name:
\* 20230922034400001_create_posts_table.apply.sql
SameKeyApplyFile ==
  UnitKey(1) \o <<"_">> \o UnitSlug(2) \o APPLY_MIGRATION_FILE_SUFFIX

\* What getAppliedMigrations can return: apply filenames in ascending order.
AppliedLists ==
  {Ascending(S) : S \in {T \in SUBSET (ResolverApplyFiles \cup {SameKeyApplyFile}) :
                           Cardinality(T) <= MaxAppliedList}}

Timestamps == {NoTimestamp, UnitKey(2), UnitKey(3)}

InitResolver ==
  /\ dir = AllFiles
  /\ database = EmptyDatabase
  /\ conn = [txn |-> "idle", db |-> EmptyDatabase]
  /\ pc = "resolver"
  /\ sub = "none"
  /\ op = [name |-> "none", timestamp |-> NoTimestamp, status |-> "none", error |-> NoError]
  /\ plan = <<>>
  /\ idx = 0
  /\ err = NoError
  /\ sent = <<>>
  /\ arg \in [allMigrations : Catalogs,
              appliedMigrations : AppliedLists,
              migrationTimestamp : Timestamps]
  /\ ret = NoRet
  /\ main = NoMain
  /\ other = NoProcess

Called(fn, result) ==
  /\ ret.fn = "none"
  /\ ret' = [fn |-> fn, result |-> result]
  /\ UNCHANGED <<dir, database, conn, pc, sub, op, plan, idx, err, sent, arg, main, other>>

CallDetermineMigrationsToApply ==
  Called("determineMigrationsToApply",
         Return(determineMigrationsToApply(arg.allMigrations, arg.appliedMigrations,
                                           arg.migrationTimestamp)))

\* filterAfterOrAtTimestamp on each file of arg.allMigrations.
CallFilterAfterOrAtTimestamp ==
  /\ arg.migrationTimestamp # NoTimestamp
  /\ Called("filterAfterOrAtTimestamp",
            Return([i \in 1..Len(arg.allMigrations) |->
                      filterAfterOrAtTimestamp(arg.allMigrations[i], arg.migrationTimestamp)]))

\* handleDown's computation of its plan from the applied list.
CallRevertPlan ==
  Called("revertPlan", revertPlan(arg.appliedMigrations, arg.migrationTimestamp))

\* applyMigrations' sort of the plan handleUp gives it.
CallApplyOrder ==
  Called("applyOrder",
         Return(applyOrder(determineMigrationsToApply(arg.allMigrations, arg.appliedMigrations,
                                                      arg.migrationTimestamp))))

NextResolver ==
  \/ CallDetermineMigrationsToApply
  \/ CallApplyOrder
  \/ CallFilterAfterOrAtTimestamp
  \/ CallRevertPlan

SpecResolver == InitResolver /\ [][NextResolver]_vars

(***************************************************************************)
(* revertMigration called on its own, as migrate.down.test.js calls it     *)
(***************************************************************************)

\* The database states revertMigration is called on: the migrations table
\* exists, and each unit is either applied and recorded or neither.
RevertMigrationDatabases ==
  {[schema |-> [u \in Units |-> IF u \in S THEN 1 ELSE 0],
    rows |-> [f \in ApplyFiles |-> IF BodyOf(f).unit \in S THEN 1 ELSE 0],
    table |-> TRUE,
    columns |-> MigrationsTableColumns] : S \in SUBSET Units}

\* The filenames revertMigration is called with: the files of the units, and
\* an apply file that is not in the migrations directory.
RevertMigrationFilenames == AllFiles \cup {OddApplyFile}

InitRevertMigration ==
  /\ dir \in {AllFiles, AllFiles \ {RevertFile(1)}}
  /\ database \in RevertMigrationDatabases
  /\ conn = [txn |-> "idle", db |-> database]
  /\ pc = "idle"
  /\ sub = "none"
  /\ op = [name |-> "none", timestamp |-> NoTimestamp, status |-> "none", error |-> NoError]
  /\ plan = <<>>
  /\ idx = 0
  /\ err = NoError
  /\ sent = <<>>
  /\ arg = NoArg
  /\ ret = NoRet
  /\ main = NoMain
  /\ other = NoProcess

\* revertMigration(client, filename) is called.
RevertMigration(filename) ==
  /\ pc = "idle"
  /\ op' = Start("revertMigration", NoTimestamp)
  /\ plan' = <<filename>>
  /\ idx' = 1
  /\ pc' = "rm_read"
  /\ sub' = "none"
  /\ err' = NoError
  /\ sent' = <<>>
  /\ UNCHANGED <<dir, database, conn, arg, ret, main, other>>

NextRevertMigration ==
  \/ \E filename \in RevertMigrationFilenames : RevertMigration(filename)
  \/ RevertMigrationRead
  \/ ExecuteSQLBegin
  \/ ExecuteSQLQuery
  \/ ExecuteSQLCommit
  \/ ExecuteSQLRollback

SpecRevertMigration == InitRevertMigration /\ [][NextRevertMigration]_vars

(***************************************************************************)
(* handleDown on a migrations table that holds a name with two ".apply."   *)
(***************************************************************************)

\* The apply file the generate command writes for the name "table.apply.sql":
\* 20230922034400006_table.apply.sql.apply.sql
DoubledApplyFile ==
  UnitKey(6) \o <<"_", "table">> \o APPLY_MIGRATION_FILE_SUFFIX \o APPLY_MIGRATION_FILE_SUFFIX

\* The database states handleDown is called on: the migrations table exists,
\* each unit is either applied and recorded or neither, and the doubled apply
\* file is recorded or not.
HandleDownDatabases ==
  {[schema |-> [u \in Units |-> IF u \in S THEN 1 ELSE 0],
    rows |-> [f \in ApplyFiles \cup {DoubledApplyFile} |->
                IF f = DoubledApplyFile THEN doubled
                ELSE IF BodyOf(f).unit \in S THEN 1 ELSE 0],
    table |-> TRUE,
    columns |-> MigrationsTableColumns] : S \in SUBSET Units, doubled \in {0, 1}}

\* The migrations directory with at most one revert file missing.
HandleDownDirectories == {AllFiles} \cup {AllFiles \ {RevertFile(u)} : u \in Units}

InitHandleDown ==
  /\ dir \in HandleDownDirectories
  /\ database \in HandleDownDatabases
  /\ conn = [txn |-> "idle", db |-> database]
  /\ pc = "idle"
  /\ sub = "none"
  /\ op = [name |-> "none", timestamp |-> NoTimestamp, status |-> "none", error |-> NoError]
  /\ plan = <<>>
  /\ idx = 0
  /\ err = NoError
  /\ sent = <<>>
  /\ arg = NoArg
  /\ ret = NoRet
  /\ main = NoMain
  /\ other = NoProcess

NextHandleDown ==
  \/ \E migrationTimestamp \in Boundaries : HandleDown(migrationTimestamp)
  \/ RevertMigrationRead
  \/ ExecuteSQLBegin
  \/ ExecuteSQLQuery
  \/ ExecuteSQLCommit
  \/ ExecuteSQLRollback

SpecHandleDown == InitHandleDown /\ [][NextHandleDown]_vars

(***************************************************************************)
(* migrate.js: the command line                                            *)
(***************************************************************************)

\* The first command-line argument: the four commands and one that main
\* does not know.
Commands == {"setup", "generate", "up", "down", "status"}

\* The second command-line argument, or none: the boundary of up and down,
\* the migration name of generate.
Options == Boundaries

\* The unit whose files handleGenerate writes: a unit that has no file in the
\* migrations directory yet, or the last unit again when every unit has its
\* files (generateTimestamp gives the same key within one second, and
\* writeFileSync overwrites).
GeneratedUnit ==
  IF \E u \in Units : {ApplyFile(u), RevertFile(u)} \cap dir = {}
  THEN CHOOSE u \in Units :
         /\ {ApplyFile(u), RevertFile(u)} \cap dir = {}
         /\ \A v \in Units : {ApplyFile(v), RevertFile(v)} \cap dir = {} => u <= v
  ELSE NumUnits

\* migrate.generate.js: handleGenerate.  Without a name formatMigrationName
\* calls replace on undefined and throws.
HandleGenerate(migrationName) ==
  /\ pc = "idle"
  /\ sent' = <<>>
  /\ plan' = <<>>
  /\ idx' = 0
  /\ IF migrationName = NoTimestamp
     THEN /\ Rejects(Start("generate", NoTimestamp), Error("TypeError", Control("none")))
          /\ UNCHANGED dir
     ELSE /\ Returns(Start("generate", NoTimestamp))
          /\ dir' = dir \cup {ApplyFile(GeneratedUnit), RevertFile(GeneratedUnit)}
  /\ UNCHANGED <<database, conn, arg, ret, main, other>>

\* migrate.js: main is started with a command line and connects its client.
Main(command, option) ==
  /\ pc = "idle"
  /\ main.client \in {"none", "ended"}
  /\ main' = [command |-> command, option |-> option, client |-> "connected"]
  /\ conn' = [txn |-> "idle", db |-> database]
  /\ op' = [name |-> "none", timestamp |-> NoTimestamp, status |-> "none", error |-> NoError]
  /\ plan' = <<>>
  /\ idx' = 0
  /\ sent' = <<>>
  /\ UNCHANGED <<dir, database, pc, sub, err, arg, ret, other>>

\* main's default case with the handlers of setup and up exchanged for it.
MainSwitch_DefaultsToSetup ==
  /\ main.client = "connected"
  /\ pc = "idle"
  /\ op.status = "none"
  /\ CASE main.command = "generate" -> HandleGenerate(main.option)
       [] main.command = "up" -> HandleUp(main.option)
       [] main.command = "down" -> HandleDown(NoTimestamp)
       [] OTHER -> HandleSetup

\* migrate.js: main's switch on the command.  handleUp gets the option as
\* its boundary; handleDown gets the client only.
MainSwitch ==
  /\ main.client = "connected"
  /\ pc = "idle"
  /\ op.status = "none"
  /\ CASE main.command = "setup" -> HandleSetup
       [] main.command = "generate" -> HandleGenerate(main.option)
       [] main.command = "up" -> HandleUp(main.option)
       [] main.command = "down" -> HandleDown(NoTimestamp)
       [] OTHER ->
            /\ op' = [Start("unknown", NoTimestamp) EXCEPT !.status = "returned"]
            /\ UNCHANGED <<dir, database, conn, pc, sub, plan, idx, err, sent, arg, ret, main, other>>

\* migrate.js: main's finally: closeClient.  Ending the session ends a
\* transaction left open on it.
MainFinally ==
  /\ main.client = "connected"
  /\ pc = "idle"
  /\ op.status \in {"returned", "rejected"}
  /\ main' = [main EXCEPT !.client = "ended"]
  /\ Rollback
  /\ UNCHANGED <<dir, pc, sub, op, plan, idx, err, sent, arg, ret, other>>

\* The migrations directory with every unit's files, or with all but the
\* last unit's.
MainDirectories == {AllFiles, AllFiles \ {ApplyFile(NumUnits), RevertFile(NumUnits)}}

InitMain ==
  /\ dir \in MainDirectories
  /\ database = EmptyDatabase
  /\ conn = [txn |-> "idle", db |-> EmptyDatabase]
  /\ pc = "idle"
  /\ sub = "none"
  /\ op = [name |-> "none", timestamp |-> NoTimestamp, status |-> "none", error |-> NoError]
  /\ plan = <<>>
  /\ idx = 0
  /\ err = NoError
  /\ sent = <<>>
  /\ arg = NoArg
  /\ ret = NoRet
  /\ main = NoMain
  /\ other = NoProcess

NextMain ==
  \/ \E command \in Commands, option \in Options : Main(command, option)
  \/ MainSwitch
  \/ MainFinally
  \/ ApplyMigrationBegin
  \/ ApplyMigrationRead
  \/ ExecuteSQLBegin
  \/ ExecuteSQLQuery
  \/ ExecuteSQLCommit
  \/ ExecuteSQLRollback
  \/ ApplyMigrationCommit
  \/ ApplyMigrationRollback
  \/ RevertMigrationRead

SpecMain == InitMain /\ [][NextMain]_vars

(***************************************************************************)
(* The exported functions called on their own, with and without a client   *)
(***************************************************************************)

\* The client argument left out (null): there is no connection.
NoClient == [txn |-> "none", db |-> EmptyDatabase]

\* The filename argument left out (or the empty string).
NoFilename == <<>>

\* The filenames applyMigration is called with: the apply files of the
\* units, an apply file that is not in the migrations directory, and none.
ApplyMigrationFilenames == ApplyFiles \cup {OddApplyFile, NoFilename}

\* A function throws in its first statement.
ThrowsAtOnce(name, message) ==
  /\ pc = "idle"
  /\ Rejects(Start(name, NoTimestamp), Error(message, Control("none")))
  /\ sent' = <<>>
  /\ plan' = <<>>
  /\ idx' = 0
  /\ UNCHANGED <<dir, database, conn, arg, ret, main, other>>

\* handleSetup(client): it has no check of its client, and client.query on
\* null is a TypeError.
CallHandleSetup ==
  IF conn = NoClient
  THEN ThrowsAtOnce("setup", "TypeError")
  ELSE HandleSetup

\* handleUp calling getAllMigrations and getAppliedMigrations whatever its client.
CallHandleUp_Unchecked(migrationTimestamp) == HandleUp(migrationTimestamp)

\* handleUp(client, migrationTimestamp)
CallHandleUp(migrationTimestamp) ==
  IF conn = NoClient
  THEN ThrowsAtOnce("up", "Client is not provided.")
  ELSE HandleUp(migrationTimestamp)

\* handleDown(client, migrationTimestamp)
CallHandleDown(migrationTimestamp) ==
  IF conn = NoClient
  THEN ThrowsAtOnce("down", "Client is not provided.")
  ELSE HandleDown(migrationTimestamp)

\* getAppliedMigrations(client).  The list it returns is selectFilenames(View).
CallGetAppliedMigrations ==
  IF conn = NoClient
  THEN ThrowsAtOnce("getAppliedMigrations", "Client is not provided.")
  ELSE /\ pc = "idle"
       /\ sent' = <<Control("SELECT")>>
       /\ plan' = <<>>
       /\ idx' = 0
       /\ IF View.table
          THEN Returns(Start("getAppliedMigrations", NoTimestamp))
          ELSE Rejects(Start("getAppliedMigrations", NoTimestamp),
                       QueryError(Control("SELECT")))
       /\ UNCHANGED <<dir, database, conn, arg, ret, main, other>>

\* applyMigration(client, filename), up to its call of executeInTransaction.
\* It is called for files that have no record, as applyMigrations calls it.
CallApplyMigration(filename) ==
  IF conn = NoClient \/ filename = NoFilename
  THEN ThrowsAtOnce("applyMigration", "Client or filename is not provided.")
  ELSE /\ pc = "idle"
       /\ filename \in ApplyFiles => database.rows[filename] = 0
       /\ op' = Start("applyMigration", NoTimestamp)
       /\ plan' = <<filename>>
       /\ idx' = 1
       /\ pc' = "am_begin"
       /\ sub' = "none"
       /\ err' = NoError
       /\ sent' = <<>>
       /\ UNCHANGED <<dir, database, conn, arg, ret, main, other>>

InitCalls ==
  /\ dir \in Directories
  /\ database = EmptyDatabase
  /\ conn \in {NoClient, [txn |-> "idle", db |-> EmptyDatabase]}
  /\ pc = "idle"
  /\ sub = "none"
  /\ op = [name |-> "none", timestamp |-> NoTimestamp, status |-> "none", error |-> NoError]
  /\ plan = <<>>
  /\ idx = 0
  /\ err = NoError
  /\ sent = <<>>
  /\ arg = NoArg
  /\ ret = NoRet
  /\ main = NoMain
  /\ other = NoProcess

\* The boundaries of the direct calls: none, and the last unit's key.
CallBoundaries == {NoTimestamp, UnitKey(NumUnits)}

NextCalls ==
  \/ CallHandleSetup
  \/ \E migrationTimestamp \in CallBoundaries : CallHandleUp(migrationTimestamp)
  \/ \E migrationTimestamp \in CallBoundaries : CallHandleDown(migrationTimestamp)
  \/ CallGetAppliedMigrations
  \/ \E filename \in ApplyMigrationFilenames : CallApplyMigration(filename)
  \/ ApplyMigrationBegin
  \/ ApplyMigrationRead
  \/ ExecuteSQLBegin
  \/ ExecuteSQLQuery
  \/ ExecuteSQLCommit
  \/ ExecuteSQLRollback
  \/ ApplyMigrationCommit
  \/ ApplyMigrationRollback
  \/ RevertMigrationRead

SpecCalls == InitCalls /\ [][NextCalls]_vars

(***************************************************************************)
(* Two handleUp runs on the same database                                  *)
(*                                                                         *)
(* Each process has its own client; dir and database are shared.  The      *)
(* variables conn to sent are those of the process taking steps, `other`   *)
(* holds those of the process that waits.  The processes take turns        *)
(* between two transactions: the interleavings inside a transaction, where *)
(* PostgreSQL's locks decide, are left out.                                *)
(***************************************************************************)

\* The database after handleSetup.
DatabaseAfterSetup ==
  [EmptyDatabase EXCEPT !.table = TRUE, !.columns = MigrationsTableColumns]

\* A process that has connected and run no command yet.
IdleProcess ==
  [conn |-> [txn |-> "idle", db |-> DatabaseAfterSetup],
   pc |-> "idle",
   sub |-> "none",
   op |-> [name |-> "none", timestamp |-> NoTimestamp, status |-> "none", error |-> NoError],
   plan |-> <<>>,
   idx |-> 0,
   err |-> NoError,
   sent |-> <<>>]

\* The process that waited takes the next steps.
Switch ==
  /\ other # NoProcess
  /\ conn.txn = "idle"
  /\ other' = [conn |-> conn, pc |-> pc, sub |-> sub, op |-> op,
               plan |-> plan, idx |-> idx, err |-> err, sent |-> sent]
  /\ conn' = other.conn
  /\ pc' = other.pc
  /\ sub' = other.sub
  /\ op' = other.op
  /\ plan' = other.plan
  /\ idx' = other.idx
  /\ err' = other.err
  /\ sent' = other.sent
  /\ UNCHANGED <<dir, database, arg, ret, main>>

InitConcurrent ==
  /\ dir = AllFiles
  /\ database = DatabaseAfterSetup
  /\ conn = IdleProcess.conn
  /\ pc = "idle"
  /\ sub = "none"
  /\ op = IdleProcess.op
  /\ plan = <<>>
  /\ idx = 0
  /\ err = NoError
  /\ sent = <<>>
  /\ arg = NoArg
  /\ ret = NoRet
  /\ main = NoMain
  /\ other = IdleProcess

NextConcurrent ==
  \/ HandleUp(NoTimestamp)
  \/ ApplyMigrationBegin
  \/ ApplyMigrationRead
  \/ ExecuteSQLBegin
  \/ ExecuteSQLQuery
  \/ ExecuteSQLCommit
  \/ ExecuteSQLRollback
  \/ ApplyMigrationCommit
  \/ ApplyMigrationRollback
  \/ Switch

SpecConcurrent == InitConcurrent /\ [][NextConcurrent]_vars

(***************************************************************************)
(* Properties                                                              *)
(***************************************************************************)

\* The unit a revert file belongs to.
UnitOfRevert(filename) == CHOOSE u \in Units : RevertFile(u) = filename

\* The unit an apply file belongs to.
UnitOfApply(filename) == CHOOSE u \in Units : ApplyFile(u) = filename

\* The files the running (or last) command sent a body, an INSERT or a DELETE for.
Attempted == {sent[i].f : i \in 1..Len(sent)} \ {<<>>}

\* A ROLLBACK the command sent after a failure.
IsRollback(m) == m.q \in {Control("ROLLBACK").q, Control("ROLLBACK;").q}

\* The last command was `name`, it walked a plan and was rejected at plan[idx].
RejectedAtUnit(name) ==
  /\ pc = "idle"
  /\ op.name = name
  /\ op.status = "rejected"
  /\ idx >= 1

\* C1: applyMigration is atomic per unit.  Where no command is running: after
\* handleUp was rejected at a unit, the database holds neither that unit's
\* schema change nor its record; after handleUp returned, it holds both for
\* every unit of the plan; and no unit's schema change is committed while its
\* record is absent.
C1_ApplyMigrationIsAtomic ==
  pc = "idle" =>
    /\ RejectedAtUnit("up") =>
         /\ database.schema[UnitOfApply(plan[idx])] = 0
         /\ database.rows[plan[idx]] = 0
    /\ (op.name = "up" /\ op.status = "returned") =>
         \A i \in 1..Len(plan) :
           /\ database.schema[UnitOfApply(plan[i])] > 0
           /\ database.rows[plan[i]] > 0
    /\ \A u \in Units : database.schema[u] > 0 => database.rows[ApplyFile(u)] > 0

\* C2: revertMigration is atomic per unit.  Where no command is running, no
\* unit's revert body is committed (its schema change is gone) while the
\* unit's record is still in the migrations table.
C2_RevertMigrationIsAtomic ==
  pc = "idle" =>
    \A u \in Units : database.rows[ApplyFile(u)] > 0 => database.schema[u] > 0

\* C3: each change is applied at most once: no unit's apply body is committed
\* a second time unless the unit was reverted in between.
C3_AppliedAtMostOnce ==
  \A u \in Units : database.schema[u] <= 1

\* C4: determineMigrationsToApply never returns a filename that is in
\* appliedMigrations.
C4_NeverReturnsApplied ==
  ret.fn = "determineMigrationsToApply" =>
    Elems(ret.result.value) \cap Elems(arg.appliedMigrations) = {}

\* C4's case: a listing that holds an applied file and a pending one.
C4_Witness ==
  /\ ret.fn = "determineMigrationsToApply"
  /\ Elems(arg.allMigrations) \cap Elems(arg.appliedMigrations) # {}
  /\ ret.result.value # <<>>

\* The files of the tests' example: the catalog 001..004.
ExampleCatalog == <<ApplyFile(1), ApplyFile(2), ApplyFile(3), ApplyFile(4)>>

\* C5: determineMigrationsToApply returns exactly the members of
\* allMigrations that end in ".apply.sql", are not in appliedMigrations and,
\* when a boundary is given, have a key <= the boundary as strings, in the
\* order of allMigrations; catalog 001..004, applied [001], boundary 003
\* gives exactly [002, 003].
C5_ReturnsExactlyThePending ==
  ret.fn = "determineMigrationsToApply" =>
    LET all == arg.allMigrations
        r == ret.result.value
        bounded == arg.migrationTimestamp # NoTimestamp
        expected ==
          {f \in Elems(all) :
             /\ endsWith(f, <<".", "apply", ".", "sql">>)
             /\ f \notin Elems(arg.appliedMigrations)
             /\ bounded => ~StrLess(arg.migrationTimestamp, splitFirst(f))}
    IN /\ Elems(r) = expected
       /\ Len(r) = Cardinality(expected)
       /\ \A i, j \in 1..Len(r) : i < j => PosIn(r[i], all) < PosIn(r[j], all)
       /\ (/\ all = ExampleCatalog
           /\ arg.appliedMigrations = <<ApplyFile(1)>>
           /\ arg.migrationTimestamp = UnitKey(3))
          => r = <<ApplyFile(2), ApplyFile(3)>>

\* C5's case: the example of the tests.
C5_Witness ==
  /\ ret.fn = "determineMigrationsToApply"
  /\ arg.allMigrations = ExampleCatalog
  /\ arg.appliedMigrations = <<ApplyFile(1)>>
  /\ arg.migrationTimestamp = UnitKey(3)
  /\ ret.result.value = <<ApplyFile(2), ApplyFile(3)>>

\* C6: the down boundary is a comparison of key strings: with a boundary b,
\* a unit with key k is kept iff not k < b as strings.
C6_DownBoundaryComparesStrings ==
  ret.fn = "filterAfterOrAtTimestamp" =>
    \A i \in 1..Len(arg.allMigrations) :
      ret.result.value[i] =
        ~StrLess(splitFirst(arg.allMigrations[i]), arg.migrationTimestamp)

C8_UpHaltsOnFailure ==
  op.name = "up" =>
    /\ \A j \in (idx + 1)..Len(plan) : plan[j] \notin Attempted
    /\ \A i \in 1..Len(sent) : IsRollback(sent[i]) =>
         /\ \A j \in (i + 1)..Len(sent) : IsRollback(sent[j])
         /\ pc = "idle" => op.status = "rejected"
    /\ RejectedAtUnit("up") =>
         /\ \/ op.error.code = "ENOENT"
            \/ op.error.stmt \in {BodyStmt(plan[idx]), InsertStmt(plan[idx])}
         /\ \A i \in 1..(idx - 1) :
              /\ database.schema[UnitOfApply(plan[i])] > 0
              /\ database.rows[plan[i]] = 1

\* C8's case: handleUp was rejected at the second unit of its plan.
C8_Witness ==
  /\ RejectedAtUnit("up")
  /\ idx = 2
  /\ op.error.stmt = InsertStmt(plan[2])

\* C9: halt-on-failure for down.  Units after the one being reverted are
\* never attempted; when handleDown was rejected at plan[idx], the error is
\* the one raised at that unit, the earlier units are reverted with their
\* records deleted, and the records of plan[idx] and the later units are
\* all still present.
C9_DownHaltsOnFailure ==
  (op.name = "down" /\ idx >= 1) =>
    /\ \A j \in (idx + 1)..Len(plan) :
         {plan[j], ApplyFile(UnitOfRevert(plan[j]))} \cap Attempted = {}
    /\ \A i \in 1..Len(sent) : IsRollback(sent[i]) =>
         /\ i = Len(sent)
         /\ pc = "idle" => op.status = "rejected"
    /\ RejectedAtUnit("down") =>
         /\ \/ op.error.code = "ENOENT"
            \/ op.error.stmt.f \in {plan[idx], ApplyFile(UnitOfRevert(plan[idx]))}
         /\ \A i \in 1..(idx - 1) :
              /\ database.schema[UnitOfRevert(plan[i])] = 0
              /\ database.rows[ApplyFile(UnitOfRevert(plan[i]))] = 0
         /\ \A j \in idx..Len(plan) :
              database.rows[ApplyFile(UnitOfRevert(plan[j]))] > 0

\* C9's case: handleDown was rejected at the second unit of its plan.
C9_Witness ==
  /\ RejectedAtUnit("down")
  /\ idx = 2

\* A step that starts handleUp.
HandleUpStep == pc = "idle" /\ op'.name = "up" /\ vars' # vars

\* C10: reruns are safe.  The plan a handleUp resolves never holds a recorded
\* unit; right after a handleUp that returned, a handleUp with the same
\* boundary resolves an empty plan and leaves the database unchanged; after a
\* handleUp rejected at plan[idx], the rerun's plan is plan[idx] and the
\* units after it.
C10_RerunsAreSafe ==
  [][HandleUpStep =>
       /\ \A i \in 1..Len(plan') : database.rows[plan'[i]] = 0
       /\ (op.name = "up" /\ op.status = "returned" /\ op'.timestamp = op.timestamp) =>
            /\ plan' = <<>>
            /\ op'.status = "returned"
            /\ database' = database
       /\ (RejectedAtUnit("up") /\ op'.timestamp = op.timestamp) =>
            /\ plan' = SubSeq(plan, idx, Len(plan))
            /\ op'.status = "running"]_vars

\* C10's case: a handleUp whose plan leaves out a unit an earlier run recorded.
C10_Witness ==
  /\ op.name = "up"
  /\ op.status = "running"
  /\ \E u \in Units : database.rows[ApplyFile(u)] = 1 /\ ApplyFile(u) \notin Elems(plan)

(***************************************************************************)
(* Resume by rerun: the operator sets the table up and then reruns         *)
(* handleUp without a boundary.  Every step of a running command is taken  *)
(* (weak fairness).  Failures are transient: a statement the server can    *)
(* execute is, if sent again and again, executed in the end (strong        *)
(* fairness).  What the server cannot execute is an apply body whose       *)
(* schema change is already in the database, such as the CREATE TABLE of   *)
(* a create_x_table unit sent a second time.                               *)
(***************************************************************************)

\* The statement repeats an apply body whose schema change is committed.
RepeatsBody(stmt) ==
  /\ stmt.q = "BODY"
  /\ BodyOf(stmt.f).kind = "apply"
  /\ View.schema[BodyOf(stmt.f).unit] > 0

\* executeSQL's query is stmt and the server executes it.
QuerySucceeds(stmt) ==
  /\ Statement = stmt
  /\ ~RepeatsBody(stmt)
  /\ ExecuteSQLQuery
  /\ sub' = "commit"

\* The statements handleSetup and handleUp send through executeSQL.
UpStatements ==
  {CreateTableStmt} \cup {BodyStmt(f) : f \in ApplyFiles} \cup {InsertStmt(f) : f \in ApplyFiles}

\* handleSetup on a database without the migrations table.
FirstSetup == ~database.table /\ HandleSetup

\* A step of the running command.
EngineStep ==
  \/ ApplyMigrationBegin
  \/ ApplyMigrationRead
  \/ ExecuteSQLBegin
  \/ ExecuteSQLQuery
  \/ ExecuteSQLCommit
  \/ ExecuteSQLRollback
  \/ ApplyMigrationCommit
  \/ ApplyMigrationRollback

NextRerun ==
  \/ FirstSetup
  \/ HandleUp(NoTimestamp)
  \/ EngineStep

\* The operator reruns handleUp until it returns: again and again a handleUp
\* starts, or a handleUp has returned and nothing is running.
OperatorReruns ==
  \/ []<><<HandleUp(NoTimestamp)>>_vars
  \/ []<>(pc = "idle" /\ op.name = "up" /\ op.status = "returned")

\* The directory holds every unit's files.
InitRerun == Init /\ dir = AllFiles

SpecRerun ==
  /\ InitRerun
  /\ [][NextRerun]_vars
  /\ WF_vars(FirstSetup)
  /\ OperatorReruns
  /\ WF_vars(EngineStep)
  /\ \A stmt \in UpStatements : SF_vars(QuerySucceeds(stmt))

\* Every apply file of the directory is recorded exactly once and its
\* schema change is in the database.
Converged ==
  \A u \in Units :
    /\ ApplyFile(u) \in dir => database.rows[ApplyFile(u)] = 1
    /\ ApplyFile(u) \in dir => database.schema[u] > 0

\* C11: resume by rerun converges.  With transient failures and an operator
\* who keeps rerunning handleUp without a boundary, the system reaches a
\* state where every apply unit of the directory is recorded exactly once
\* with its schema change present, and stays there.
C11_RerunConverges == <>[]Converged

\* The apply files of the directory a handleUp with boundary b has to have
\* recorded: all of them without a boundary, those with a key <= b with one.
DueUp(b) ==
  {f \in ApplyFiles \cap dir : b # NoTimestamp => ~StrLess(b, splitFirst(f))}

\* C12: what handleUp(client, b) records.  While it runs, the only change to
\* the migrations table is one new record for an apply file of the directory
\* that had none and whose key is <= b; when it has returned, every apply
\* file of the directory with a key <= b (every one, without a boundary) has
\* a record.
C12_UpRecordsUpToBoundary ==
  /\ [](pc = "idle" /\ op.name = "up" /\ op.status = "returned" =>
          \A f \in DueUp(op.timestamp) : database.rows[f] > 0)
  /\ [][op'.name = "up" =>
          \A f \in ApplyFiles :
            database'.rows[f] # database.rows[f] =>
              /\ f \in DueUp(op'.timestamp)
              /\ database.rows[f] = 0
              /\ database'.rows[f] = 1]_vars

\* C12's case: handleUp with a boundary has returned, it recorded a unit and
\* left a unit after the boundary unrecorded.
C12_Witness ==
  /\ pc = "idle" /\ op.name = "up" /\ op.status = "returned"
  /\ op.timestamp # NoTimestamp
  /\ plan # <<>>
  /\ \E f \in ApplyFiles \ DueUp(op.timestamp) : database.rows[f] = 0

\* The apply files whose records a handleDown with boundary b has to have
\* deleted: all of them without a boundary, those with a key >= b with one.
DueDown(b) ==
  {f \in ApplyFiles : b # NoTimestamp => ~StrLess(splitFirst(f), b)}

\* C13: what handleDown(client, b) leaves.  While it runs, the only change to
\* the migrations table is the deletion of a record whose key is >= b, so
\* the records with a key < b stay; when it has returned, no record with a
\* key >= b (no record at all, without a boundary) is left.
C13_DownLeavesRecordsBeforeBoundary ==
  /\ [](pc = "idle" /\ op.name = "down" /\ op.status = "returned" =>
          \A f \in DueDown(op.timestamp) : database.rows[f] = 0)
  /\ [][op'.name = "down" =>
          \A f \in ApplyFiles :
            database'.rows[f] # database.rows[f] =>
              /\ f \in DueDown(op'.timestamp)
              /\ database'.rows[f] = 0]_vars

\* The last queries the command sent are those of a revertMigration call that
\* returned: BEGIN; body COMMIT; BEGIN; DELETE COMMIT;
RevertMigrationReturned ==
  /\ op.name = "down"
  /\ Len(sent) >= 6
  /\ sent[Len(sent)].q = "COMMIT;"
  /\ sent[Len(sent) - 1].q = "DELETE"
  /\ sent[Len(sent) - 4].q = "BODY"

\* The unit that revertMigration call reverted.
RevertedUnit == BodyOf(sent[Len(sent) - 4].f).unit

\* The unit the running applyMigration or revertMigration call works on.
CurrentUnit ==
  IF pc \in {"rm_read", "rm_body", "rm_delete"}
  THEN UnitOfRevert(plan[idx])
  ELSE UnitOfApply(plan[idx])

\* C14: applying a unit and then reverting it is a round trip.  When
\* revertMigration has returned for a unit U (whose record applyMigration
\* had written), the migrations table holds no record for U and U's schema
\* change is gone; and no step of an applyMigration or revertMigration call
\* for U changes the record or the schema change of any other unit.
C14_ApplyThenRevertRoundTrip ==
  /\ [](RevertMigrationReturned =>
          /\ database.rows[ApplyFile(RevertedUnit)] = 0
          /\ database.schema[RevertedUnit] = 0)
  /\ [][pc \notin {"idle", "setup_create"} =>
          \A u \in Units \ {CurrentUnit} :
            /\ database'.rows[ApplyFile(u)] = database.rows[ApplyFile(u)]
            /\ database'.schema[u] = database.schema[u]]_vars

\* revertMigration has returned for a unit while the record of another unit,
\* applied by the same handleUp, stays.
C14_Witness ==
  /\ RevertMigrationReturned
  /\ \E u \in Units \ {RevertedUnit} : database.rows[ApplyFile(u)] = 1

\* The filenames of s are in strictly ascending order.
IsAscending(s) == \A i \in 1..(Len(s) - 1) : localeCompare(s[i], s[i + 1]) < 0

\* C15 as stated: the plan determineMigrationsToApply returns is in ascending
\* filename order for every ordering of allMigrations.
C15_ResolverReturnsAscending ==
  ret.fn = "determineMigrationsToApply" => IsAscending(ret.result.value)

\* C15, amended: determineMigrationsToApply returns the pending files in the
\* order allMigrations has them; it is the sort of applyMigrations that puts
\* them, all of them and each once, in ascending filename order for every
\* ordering of allMigrations.
C15_PlanSortedByApplyMigrations ==
  /\ ret.fn = "determineMigrationsToApply" =>
       LET returned(migration) == migration \in Elems(ret.result.value)
       IN ret.result.value = SelectSeq(arg.allMigrations, returned)
  /\ ret.fn = "applyOrder" =>
       LET migrationsToApply ==
             determineMigrationsToApply(arg.allMigrations, arg.appliedMigrations,
                                        arg.migrationTimestamp)
       IN /\ IsAscending(ret.result.value)
          /\ Len(ret.result.value) = Len(migrationsToApply)
          /\ Elems(ret.result.value) = Elems(migrationsToApply)

\* A plan of several files, sorted from a listing that was not ascending.
C15_Witness ==
  /\ ret.fn = "applyOrder"
  /\ Len(ret.result.value) >= 2
  /\ ~IsAscending(arg.allMigrations)

\* handleUp is walking its plan.
ApplyingUnit == op.name = "up" /\ pc \notin {"idle", "setup_create"}

\* C16: handleUp applies the units of its plan one at a time in strictly
\* ascending filename order, whatever order the directory listing had: while
\* it works on a unit, every selected unit with a smaller filename has its
\* schema change and its record committed, and nothing was sent yet for a
\* selected unit with a greater filename.
C16_UpAppliesInAscendingOrder ==
  ApplyingUnit =>
    /\ IsAscending(plan)
    /\ \A f \in Elems(plan) :
         /\ localeCompare(f, plan[idx]) < 0 =>
              /\ database.rows[f] > 0
              /\ database.schema[UnitOfApply(f)] > 0
         /\ localeCompare(f, plan[idx]) > 0 => f \notin Attempted

\* handleUp starts the second unit of its plan.
C16_Witness ==
  /\ ApplyingUnit
  /\ pc = "am_begin"
  /\ idx = 2

\* The last command was handleSetup and it returned.
SetupReturned == pc = "idle" /\ op.name = "setup" /\ op.status = "returned"

\* C17: handleSetup is idempotent.  Called on a database that has the
\* migrations table, it returns without sending CREATE TABLE and leaves the
\* database as it was; and whenever it has returned, the table exists with
\* exactly the columns id, filename, applied_at.
C17_SetupIsIdempotent ==
  /\ [](SetupReturned =>
          /\ database.table
          /\ database.columns = {"id", "filename", "applied_at"})
  /\ [][(pc = "idle" /\ database.table /\ op'.name = "setup") =>
          /\ SetupReturned'
          /\ CreateTableStmt \notin Elems(sent')
          /\ database' = database]_vars

\* handleSetup returned on a database whose migrations table holds a record.
C17_Witness ==
  /\ SetupReturned
  /\ CreateTableStmt \notin Elems(sent)
  /\ \E f \in ApplyFiles : database.rows[f] > 0

\* revertMigration was called with a filename that does not end in ".revert.sql".
CalledWithoutRevertSuffix ==
  /\ op.name = "revertMigration"
  /\ ~endsWith(plan[1], REVERT_MIGRATION_FILE_SUFFIX)

\* C18: revertMigration called with a filename that does not end in
\* ".revert.sql" throws "Invalid migration file. ..." before it reads a file
\* or sends any SQL: it sends no query at all, it is rejected with that error
\* (also when no such file exists, so the check precedes the read), and it
\* leaves the database as it was.
C18_RevertMigrationChecksSuffix ==
  /\ [](CalledWithoutRevertSuffix =>
          /\ sent = <<>>
          /\ pc \in {"rm_read", "idle"}
          /\ pc = "idle" =>
               /\ op.status = "rejected"
               /\ op.error.code = "InvalidMigrationFile")
  /\ [][CalledWithoutRevertSuffix' =>
          /\ database' = database
          /\ conn' = conn]_vars

\* revertMigration was rejected for the apply file of a recorded unit.
C18_Witness ==
  /\ CalledWithoutRevertSuffix
  /\ pc = "idle"
  /\ plan[1] \in ApplyFiles
  /\ database.rows[plan[1]] = 1

\* The migrations table holds a name that appliedToRevertMigration maps to a
\* name not ending in ".revert.sql".
RecordWithoutRevertName ==
  \E f \in DOMAIN database.rows :
    /\ database.rows[f] > 0
    /\ ~endsWith(appliedToRevertMigration(f), REVERT_MIGRATION_FILE_SUFFIX)

\* C19: the suffix check of determineMigrationsToRevert fails loudly and is no
\* filter.  When a recorded name maps to a revert name without the suffix
\* ".revert.sql", handleDown does not drop that name and revert the others:
\* it is rejected with "Invalid migration file. ..." before it reverts any
\* unit, with no plan, nothing sent but its SELECT, and the database as it was.
C19_RevertCheckFailsLoudly ==
  /\ [][(pc = "idle" /\ RecordWithoutRevertName /\ op'.name = "down") =>
          /\ pc' = "idle"
          /\ op'.status = "rejected"
          /\ op'.error.code = "InvalidMigrationFile"
          /\ plan' = <<>>
          /\ sent' = <<Control("SELECT")>>
          /\ database' = database]_vars
  /\ [](op.error.code = "InvalidMigrationFile" => Attempted = {})

\* handleDown was rejected for the malformed name while other units, which a
\* filter would have let it revert, are recorded.
C19_Witness ==
  /\ pc = "idle"
  /\ op.name = "down"
  /\ op.status = "rejected"
  /\ op.error.code = "InvalidMigrationFile"
  /\ \E f \in ApplyFiles : database.rows[f] = 1

\* handleDown has reached a unit of its plan whose revert file is missing.
AtMissingRevertFile ==
  /\ op.name = "down"
  /\ idx >= 1
  /\ plan[idx] \notin dir

\* C20: when the revert file of an applied unit is missing, handleDown fails
\* with the not-found error at that unit.  The unit is not skipped: the step
\* that reaches it ends the command, rejected, with the database as it was.
\* After that no body and no DELETE was sent for the unit, its record is
\* still in the table, and for no later unit of the plan was anything sent
\* or a record removed.
C20_MissingRevertFileStopsDown ==
  /\ [][(pc = "rm_read" /\ AtMissingRevertFile) =>
          /\ pc' = "idle"
          /\ op'.status = "rejected"
          /\ op'.error.code = "ENOENT"
          /\ idx' = idx
          /\ database' = database]_vars
  /\ [](AtMissingRevertFile /\ pc = "idle" =>
          \A j \in idx..Len(plan) :
            /\ plan[j] \notin Attempted
            /\ applyFilename(plan[j]) \notin Attempted
            /\ database.rows[applyFilename(plan[j])] > 0)

\* handleDown was rejected at a missing revert file with a later unit in its plan.
C20_Witness ==
  /\ AtMissingRevertFile
  /\ pc = "idle"
  /\ op.status = "rejected"
  /\ idx < Len(plan)

\* C21: handleDown on a database whose migrations table was never created is
\* rejected with the error 'relation "migrations" does not exist' of its
\* SELECT; it does not return as if nothing were applied, and it sends
\* nothing else and changes nothing.
C21_DownWithoutTableRejects ==
  [][(pc = "idle" /\ ~database.table /\ op'.name = "down") =>
       /\ pc' = "idle"
       /\ op'.status = "rejected"
       /\ op'.error = Error("relation \"migrations\" does not exist", Control("SELECT"))
       /\ sent' = <<Control("SELECT")>>
       /\ database' = database
       /\ conn' = conn]_vars

\* handleDown was rejected on a database without the migrations table.
C21_Witness ==
  /\ pc = "idle"
  /\ op.name = "down"
  /\ op.status = "rejected"
  /\ ~database.table

\* C22: bootstrap always precedes plan resolution.  Once the `up` command
\* has read the applied list, the migrations table exists, and the run was
\* not rejected for a missing migrations table.
C22_UpEnsuresTheTable ==
  (main.command = "up" /\ op.name = "up") =>
    /\ database.table
    /\ op.error.code # "relation \"migrations\" does not exist"

\* The last command was handleUp or handleDown.
UpOrDown == op.name \in {"up", "down"}

\* C23: empty plans are not errors and touch nothing.  handleUp called when
\* no apply file up to its boundary is unrecorded (as with an empty
\* migrations directory), or handleDown called when the migrations table
\* holds no record, returns at once, having sent only the SELECT of the
\* applied list and leaving database and connection as they were; and a
\* handleUp or handleDown that returned with an empty plan has sent nothing
\* but that SELECT.
C23_EmptyPlanTouchesNothing ==
  /\ [][(/\ pc = "idle"
         /\ database.table
         /\ \/ op'.name = "up" /\ \A f \in DueUp(op'.timestamp) : database.rows[f] > 0
            \/ op'.name = "down" /\ \A f \in ApplyFiles : database.rows[f] = 0) =>
          /\ pc' = "idle"
          /\ op'.status = "returned"
          /\ plan' = <<>>
          /\ sent' = <<Control("SELECT")>>
          /\ database' = database
          /\ conn' = conn]_vars
  /\ []((pc = "idle" /\ UpOrDown /\ op.status = "returned" /\ plan = <<>>) =>
          sent = <<Control("SELECT")>>)

\* handleUp returned on an empty migrations directory.
C23_Witness ==
  /\ pc = "idle"
  /\ op.name = "up"
  /\ op.status = "returned"
  /\ dir = {}
  /\ sent = <<Control("SELECT")>>

\* A call of handleUp, handleDown, getAppliedMigrations or applyMigration.
ClientCheckingCall ==
  /\ pc = "idle"
  /\ op' # op
  /\ op'.name \in {"up", "down", "getAppliedMigrations", "applyMigration"}

\* C24: a missing client fails fast.  handleUp, handleDown and
\* getAppliedMigrations called without a client are rejected with "Client is
\* not provided.", and applyMigration without a client or without a filename
\* with "Client or filename is not provided.", in the step of the call:
\* nothing was sent, and directory, database and connection are unchanged.
C24_MissingClientFailsFast ==
  [][(ClientCheckingCall /\ (conn = NoClient \/ (op'.name = "applyMigration" /\ pc' = "idle"))) =>
       /\ pc' = "idle"
       /\ op'.status = "rejected"
       /\ op'.error.code = IF op'.name = "applyMigration"
                           THEN "Client or filename is not provided."
                           ELSE "Client is not provided."
       /\ sent' = <<>>
       /\ dir' = dir
       /\ database' = database
       /\ conn' = conn]_vars

\* handleUp was rejected for its missing client.
C24_Witness ==
  /\ conn = NoClient
  /\ pc = "idle"
  /\ op.name = "up"
  /\ op.status = "rejected"

\* C25: the command `down <boundaryTimestamp>` reverts only the applied
\* units whose key is >= the boundary and leaves the records with smaller
\* keys in place, and `up <boundaryTimestamp>` applies only units whose key
\* is <= the boundary: a run with a boundary changes no record of a unit on
\* the other side of it.
C25_CommandsStopAtBoundary ==
  [][main.option # NoTimestamp =>
       \A f \in ApplyFiles :
         database'.rows[f] # database.rows[f] =>
           /\ main.command = "down" => ~StrLess(splitFirst(f), main.option)
           /\ main.command = "up" => ~StrLess(main.option, splitFirst(f))]_vars

\* The command `down` has run and returned.
DownCommandReturned ==
  /\ main.command = "down"
  /\ op.name = "down"
  /\ pc = "idle"
  /\ op.status = "returned"

UnknownCommand ==
  /\ main.client # "none"
  /\ main.command \notin {"setup", "generate", "up", "down"}

\* C27: an unknown command has no side effect.  While main runs it, no
\* query is sent and no handler is started, no step changes the database or
\* the migrations directory, and the step after the switch closes the client.
C27_UnknownCommandDoesNothing ==
  /\ [](UnknownCommand =>
          /\ sent = <<>>
          /\ pc = "idle"
          /\ op.name \in {"none", "unknown"})
  /\ [][UnknownCommand =>
          /\ database' = database
          /\ dir' = dir
          /\ (main.client = "connected" /\ op.status # "none") => main'.client = "ended"]_vars

\* main has closed its client after an unknown command, on a database that
\* holds a record.
C27_Witness ==
  /\ UnknownCommand
  /\ main.client = "ended"
  /\ op.name = "unknown"
  /\ \E f \in ApplyFiles : database.rows[f] = 1

\* Both processes are in a handleUp run whose plan holds the file f.
BothPlanned(f) ==
  /\ op.name = "up"
  /\ other.op.name = "up"
  /\ f \in Elems(plan)
  /\ f \in Elems(other.plan)

\* C28: there is no locking against concurrent invocations.  A handleUp run
\* keeps its plan from its SELECT to its end whatever the other process
\* commits meanwhile, and when it comes to the INSERT the table definition
\* lets the statement succeed whatever records the table holds; so two
\* interleaved runs can both apply a unit and record it twice.
C28_NothingPreventsDoubleApply ==
  /\ []((ApplyingUnit /\ pc = "am_insert" /\ sub = "query" /\ conn.txn # "aborted") =>
          CanSucceed(View, Statement))
  /\ [][(ApplyingUnit /\ other' = other /\ pc' # "idle") =>
          /\ plan' = plan
          /\ idx' >= idx]_vars

\* Both runs resolved the same unit as pending, both ran its apply body and
\* the migrations table holds two records for its filename.
C28_Witness ==
  \E f \in ApplyFiles :
    /\ BothPlanned(f)
    /\ database.rows[f] = 2
    /\ database.schema[UnitOfApply(f)] = 2

IsBegin(m) == m.q \in {Control("BEGIN").q, Control("BEGIN;").q}

IsCommit(m) == m.q \in {Control("COMMIT").q, Control("COMMIT;").q}

\* The queries of the applyMigration call that is running or ran last: those
\* from executeInTransaction's BEGIN on.
ApplyMigrationQueries ==
  LET starts == {i \in 1..Len(sent) : sent[i] = Control("BEGIN")}
      first == CHOOSE i \in starts : \A j \in starts : j <= i
  IN IF starts = {} THEN <<>> ELSE SubSeq(sent, first, Len(sent))

\* C29: the statements applyMigration sends form one well-bracketed
\* transaction: one BEGIN, at most one COMMIT or one ROLLBACK and never
\* both, and no COMMIT before the SQL body and the INSERT were both sent.
C29_ApplyMigrationIsOneTransaction ==
  LET q == ApplyMigrationQueries
      count(is(_)) == Cardinality({i \in 1..Len(q) : is(q[i])})
  IN (op.name = "up" /\ q # <<>>) =>
       /\ count(IsBegin) = 1
       /\ count(IsCommit) + count(IsRollback) <= 1
       /\ \A i \in 1..Len(q) :
            IsCommit(q[i]) =>
              /\ \E j \in 1..(i - 1) : q[j].q = "BODY"
              /\ \E j \in 1..(i - 1) : q[j].q = "INSERT"

\* C30: with a single process running any sequence of handleSetup, handleUp
\* and handleDown, with any boundaries and any failing statements, the
\* migrations table never holds two records with the same filename, neither
\* committed nor inside the client's transaction.
C30_NoDuplicateRecords ==
  \A f \in ApplyFiles :
    /\ database.rows[f] <= 1
    /\ conn.db.rows[f] <= 1

\* A unit's apply body was committed a second time, by a rerun after its
\* INSERT had failed, and the unit is recorded once.
C30_Witness ==
  \E u \in Units :
    /\ database.schema[u] = 2
    /\ database.rows[ApplyFile(u)] = 1

\* applyMigration was called for a filename that has no file in the
\* migrations directory.
AppliesMissingFile ==
  /\ op.name = "applyMigration"
  /\ plan # <<>>
  /\ plan[1] \notin dir

\* C31: applyMigration for a filename whose file is absent is rejected with
\* the not-found error of readFile (ENOENT), as it was thrown.  No body and
\* no INSERT is sent; the only queries are the BEGIN of executeInTransaction
\* and its ROLLBACK, after which no transaction is open; and no step of the
\* call changes the database.
C31_MissingApplyFileIsNotFound ==
  /\ [](AppliesMissingFile =>
          /\ pc \in {"am_begin", "am_read", "am_rollback", "idle"}
          /\ Attempted = {}
          /\ pc = "idle" =>
               /\ op.status = "rejected"
               /\ op.error = Error("ENOENT", Control("readFile"))
               /\ sent = <<Control("BEGIN"), Control("ROLLBACK")>>
               /\ conn.txn = "idle")
  /\ [][AppliesMissingFile' => database' = database]_vars

\* applyMigration was rejected for a missing file on a database that holds
\* the migrations table.
C31_Witness ==
  /\ AppliesMissingFile
  /\ pc = "idle"
  /\ op.status = "rejected"
  /\ database.table

\* The revert files of the applied list in the reverse of the order in which
\* one handleUp run applies its files.
ReverseOfApplyOrder(appliedMigrations) ==
  LET applied == Reverse(applyOrder(appliedMigrations))
  IN Array([i \in 1..Len(applied) |-> appliedToRevertMigration(applied[i])], Len(applied))

\* C32: for every set of applied units, units that share a timestamp key
\* included, handleDown without a boundary reverts them in exactly the
\* reverse of the order in which handleUp applied them.
C32_DownRevertsInReverseOfUp ==
  (/\ ret.fn = "revertPlan"
   /\ ret.result.threw = "none"
   /\ arg.migrationTimestamp = NoTimestamp) =>
    ret.result.value = ReverseOfApplyOrder(arg.appliedMigrations)

\* C33: the two name mappings are inverse on every recorded apply filename,
\* slugs that contain ".apply." or ".revert.sql" included: the revert name
\* handleDown plans for a recorded name f, mapped to an apply name as
\* revertMigration maps it for its DELETE, is f again.
C33_DeleteTargetsTheRevertedRecord ==
  (/\ ret.fn = "revertPlan"
   /\ ret.result.threw = "none") =>
    \A j \in DOMAIN ret.result.value :
      \A i \in DOMAIN arg.appliedMigrations :
        LET f == arg.appliedMigrations[i]
        IN (/\ endsWith(f, APPLY_MIGRATION_FILE_SUFFIX)
            /\ ret.result.value[j] = appliedToRevertMigration(f)) =>
             applyFilename(ret.result.value[j]) = f

====
